---- MODULE Spec2Model ----
(***************************************************************************)
(* Hybrid retrieval and query cache of the customer-service RAG system.    *)
(*                                                                         *)
(*   core/cache/manager.py              QueryCacheManager                  *)
(*   core/retrieval/hybrid_retriever.py HybridRetriever                    *)
(*                                                                         *)
(* The specifications share the variables:                                 *)
(*   Spec        one QueryCacheManager driven by sequential get / set /    *)
(*               invalidate_by_query / clear calls while time passes;      *)
(*   SpecStats   the same with get_stats and longer runs of get calls;     *)
(*   SpecThreads two threads, one get or set call each, interleaved        *)
(*               statement by statement on one QueryCacheManager;          *)
(*   SpecFuse    the fusion step of hybrid_retrieval (lines 134-161) as a  *)
(*               function of its two input lists, the weights and top_k;   *)
(*   SpecHybrid  HybridRetriever.hybrid_retrieval over its own             *)
(*               QueryCacheManager, with the administrative calls;         *)
(*   SpecFault   SpecHybrid's calls with CACHE_MAX_SIZE=0;                 *)
(*   SpecInvalid hybrid_retrieval given top_k <= 0 or negative weights;    *)
(*   SpecIndex   rebuilds of the keyword index that can fail;              *)
(*   SpecConfigs one query under several weight settings and top_k.        *)
(*   SpecAlias   the cache and a caller that changes a list it passed to   *)
(*               set or got from get;                                      *)
(*   SpecRecency set calls alone, over four keys, on a cache of MaxCap;    *)
(*   SpecFlow    hybrid_retrieval with a weight that can be no number;     *)
(*   SpecRebuild SpecHybrid's calls where every rebuild changes the corpus.*)
(*                                                                         *)
(* Time is time.time() read as an integer number of ticks; weights and     *)
(* similarities are integers (the code's floats, scaled).                  *)
(***************************************************************************)
EXTENDS Integers, Sequences, FiniteSets, TLC

\* ------------------------------------------------------------------ bounds
MaxCap == 3       \* largest CACHE_MAX_SIZE tried (the smallest is 1)
MaxTTL == 1       \* largest CACHE_TTL tried (0 = never expires)
MaxTime == MaxTTL + 1   \* the clock stops once every TTL has run out
MaxQueries == 1   \* get calls counted between two clear calls
MaxTopK == 2      \* largest top_k tried
MaxList == 2      \* longest list a retrieval source returns
MaxCalls == 2     \* hybrid_retrieval calls counted between two clear_cache calls

Queries == {"q1", "q2"}
Contents == {"c1", "c2"}          \* passage texts
Similarities == {1, 2}            \* scores a source gives
HashValues == {1, 2}              \* values of hash(); fewer than 2^64
TopKs == 1..MaxTopK
Times == 0..MaxTime

\* Defaults of VECTOR_RETRIEVAL_WEIGHT (0.6) and KEYWORD_RETRIEVAL_WEIGHT
\* (0.4), in tenths.
DefaultVectorWeight == 6
DefaultKeywordWeight == 4
\* 1.0 in tenths: similarity = 1.0 - distance.
Unit == 10

VARIABLES
    \* QueryCacheManager
    cache_enabled,    \* self.cache_enabled
    cache_ttl,        \* self.cache_ttl
    cache_max_size,   \* self.cache_max_size
    cache,            \* self.cache: the OrderedDict as the sequence of its
                      \* entries, least recently used first
    cache_stats,      \* self.cache_stats
    now,              \* time.time()
    \* HybridRetriever
    vector_weight,    \* self.vector_weight
    keyword_weight,   \* self.keyword_weight
    content_hash,     \* hash() on str in this process: content -> hash value
    documents_cache,  \* self.documents_cache
    tfidf_matrix,     \* self.tfidf_matrix: None, or the number of its rows
    corpus,           \* the documents the vector store held at the last build
    \* bookkeeping of the calls (not program state)
    op,               \* the call that has just returned: [name, query, params]
    ret,              \* what it returned: [some, results]
    fetched,          \* what hybrid_retrieval got from its two sources
    evicted,          \* the entries it removed: set for capacity, get as
                      \* expired, invalidate_by_query for their query, clear all
    touchOrder,       \* keys held, by their most recent insert-or-hit
    resetSeen,        \* a set call found its key already held
    \* threads sharing the QueryCacheManager (SpecThreads)
    threads,          \* per thread: the call it is in, its position and locals
    \* bookkeeping of the statistics (not program state)
    get_calls         \* get calls made on the enabled cache since the last clear

cacheVars == <<cache_enabled, cache_ttl, cache_max_size, cache, cache_stats, now>>
retrieverVars ==
    <<vector_weight, keyword_weight, content_hash, documents_cache, tfidf_matrix,
      corpus>>
callVars == <<op, ret, evicted, touchOrder, resetSeen>>
vars == <<cacheVars, retrieverVars, callVars, fetched, threads, get_calls>>

\* ------------------------------------------------------------- data model
\* A retrieval_params dict as hybrid_retrieval builds it.
RetrievalParams(vw, kw, k) ==
    [vector_weight |-> vw, keyword_weight |-> kw, top_k |-> k]

\* The (query, retrieval_params) pairs the cache is driven with in Spec: one
\* query under two configurations, and a second query.
DefaultParams(k) == RetrievalParams(DefaultVectorWeight, DefaultKeywordWeight, k)

CacheCalls ==
    {<<"q1", DefaultParams(5)>>, <<"q1", DefaultParams(1)>>, <<"q2", DefaultParams(5)>>}

\* A result record of hybrid_retrieval.
Passage(c, m, s) == [content |-> c, metadata |-> m, score |-> s]

\* The set calls the cache is driven with in Spec, as <<query, params,
\* results>>: the first key is stored with either of two result lists (the
\* empty list is a result like any other), the other keys with one.
SetCalls ==
    {<<"q1", DefaultParams(5), <<>>>>,
     <<"q1", DefaultParams(5), <<Passage("c1", "m1", 1)>>>>,
     <<"q1", DefaultParams(1), <<>>>>,
     <<"q2", DefaultParams(5), <<Passage("c1", "m1", 1)>>>>}

None == [some |-> FALSE, results |-> <<>>]
Some(r) == [some |-> TRUE, results |-> r]

NoCall == [name |-> "none", query |-> "", params |-> RetrievalParams(0, 0, 0)]
Call(n, q, p) == [name |-> n, query |-> q, params |-> p]

\* ------------------------------------------------------ QueryCacheManager
\* Mutant: a key that leaves the weights out.
generate_cache_key_without_weights(query, retrieval_params) ==
    <<query, "_", retrieval_params.top_k>>

\* key_data = f"{query}_{retrieval_params}", then its md5 hex digest.  The
\* formatted text determines query and params (the dict's repr starts at
\* the only "{" after the separator), and the digest is taken to be
\* collision free, so the key is the pair.
generate_cache_key(query, retrieval_params) == <<query, "_", retrieval_params>>

\* The key an entry is stored under: set derives it from the query and the
\* params it stores in the entry.
KeyOf(entry) == generate_cache_key(entry.query, entry.params)

Keys(c) == {KeyOf(c[i]) : i \in 1..Len(c)}

IndexOf(c, k) == CHOOSE i \in 1..Len(c) : KeyOf(c[i]) = k

Lookup(c, k) == c[IndexOf(c, k)]

\* del self.cache[key]
Delete(c, k) == SelectSeq(c, LAMBDA e : KeyOf(e) # k)

\* Mutant: a hit that leaves the order as it is.
move_to_end_skipped(c, k) == c

\* self.cache.move_to_end(key)
move_to_end(c, k) == Append(Delete(c, k), Lookup(c, k))

\* self.cache[key] = entry: a key already held keeps its position in an
\* OrderedDict, a new key goes to the end.
Assign(c, k, entry) ==
    IF k \in Keys(c)
    THEN [i \in 1..Len(c) |-> IF KeyOf(c[i]) = k THEN entry ELSE c[i]]
    ELSE Append(c, entry)

\* Mutant: an entry already expired at age ttl (>= for >).
is_expired_at_ttl(cache_entry, t) ==
    IF cache_ttl <= 0 THEN FALSE
    ELSE t - cache_entry.created_time >= cache_ttl

\* Mutant: a ttl of 0 is compared like any other.
is_expired_zero_ttl_counts(cache_entry, t) ==
    t - cache_entry.created_time > cache_ttl

is_expired(cache_entry, t) ==
    IF cache_ttl <= 0 THEN FALSE
    ELSE t - cache_entry.created_time > cache_ttl

cleanup_expired(c, t) ==
    IF ~cache_enabled THEN c
    ELSE SelectSeq(c, LAMBDA e : ~is_expired(e, t))

\* Mutant: evicts only once the cache is over its capacity (> for >=).
RECURSIVE evict_if_over(_)
evict_if_over(c) ==
    IF ~cache_enabled THEN c
    ELSE IF Len(c) > cache_max_size /\ c # <<>>
         THEN evict_if_over(Tail(c))
         ELSE c

\* while len(self.cache) >= self.cache_max_size: delete the first key.
RECURSIVE evict_if_needed(_)
evict_if_needed(c) ==
    IF ~cache_enabled THEN c
    ELSE IF Len(c) >= cache_max_size /\ c # <<>>
         THEN evict_if_needed(Tail(c))
         ELSE c

\* set raises: with cache_max_size <= 0 the loop of _evict_if_needed empties
\* the cache and then next(iter(self.cache)) raises StopIteration.
CacheSetRaises == cache_enabled /\ cache_max_size <= 0

\* Mutant: room is made after the entry is written.
CacheSet_evicts_after(c, query, retrieval_params, results, t) ==
    evict_if_needed(
        Assign(cleanup_expired(c, t), generate_cache_key(query, retrieval_params),
               [query |-> query, params |-> retrieval_params,
                results |-> results, created_time |-> t]))

\* The cache after set(query, retrieval_params, results) at time t.
CacheSet(c, query, retrieval_params, results, t) ==
    LET cache_key == generate_cache_key(query, retrieval_params)
        kept == evict_if_needed(cleanup_expired(c, t))
    IN  Assign(kept, cache_key,
               [query |-> query, params |-> retrieval_params,
                results |-> results, created_time |-> t])

\* Mutant: an expired entry is reported as a miss but left in the cache.
CacheGet_keeps_expired(c, stats, query, retrieval_params, t) ==
    LET cache_key == generate_cache_key(query, retrieval_params)
        counted == [stats EXCEPT !.total_queries = @ + 1]
    IN  IF cache_key \in Keys(c) /\ ~is_expired(Lookup(c, cache_key), t)
        THEN [cache |-> move_to_end(c, cache_key),
              stats |-> [counted EXCEPT !.hits = @ + 1],
              ret |-> Some(Lookup(c, cache_key).results)]
        ELSE [cache |-> c,
              stats |-> [counted EXCEPT !.misses = @ + 1],
              ret |-> None]

\* get(query, retrieval_params) at time t: the cache, the statistics and the
\* value returned.
CacheGet(c, stats, query, retrieval_params, t) ==
    LET cache_key == generate_cache_key(query, retrieval_params)
        counted == [stats EXCEPT !.total_queries = @ + 1]
    IN  IF cache_key \in Keys(c)
        THEN IF is_expired(Lookup(c, cache_key), t)
             THEN [cache |-> Delete(c, cache_key),
                   stats |-> [counted EXCEPT !.misses = @ + 1],
                   ret |-> None]
             ELSE [cache |-> move_to_end(c, cache_key),
                   stats |-> [counted EXCEPT !.hits = @ + 1],
                   ret |-> Some(Lookup(c, cache_key).results)]
        ELSE [cache |-> c,
              stats |-> [counted EXCEPT !.misses = @ + 1],
              ret |-> None]

\* Mutant: invalidation stops at the first entry found for the query.
invalidate_by_query_first_only(c, query) ==
    IF \E i \in 1..Len(c) : c[i].query = query
    THEN LET first == CHOOSE i \in 1..Len(c) :
                         /\ c[i].query = query
                         /\ \A j \in 1..(i - 1) : c[j].query # query
         IN  SubSeq(c, 1, first - 1) \o SubSeq(c, first + 1, Len(c))
    ELSE c

\* invalidate_by_query on an enabled cache: every entry stored for the query
\* goes, under whatever parameters; the others keep their order.
invalidate_by_query(c, query) == SelectSeq(c, LAMBDA e : e.query # query)

ZeroStats == [hits |-> 0, misses |-> 0, total_queries |-> 0]

\* Mutant: clear empties the cache and keeps the counters.
CacheClear_keeps_counters(c, stats) == [cache |-> <<>>, stats |-> stats]

\* clear(): self.cache.clear() and a fresh cache_stats, whether the cache is
\* enabled or not.
CacheClear(c, stats) == [cache |-> <<>>, stats |-> ZeroStats]

\* a / b to the nearest integer, for a >= 0 and b > 0.
RoundDiv(a, b) == (2 * a + b) \div (2 * b)

\* Mutant: the rate is taken over the hits and the entries now held.
hit_rate_from_entries(stats, entries) ==
    IF stats.hits + entries > 0
    THEN RoundDiv(stats.hits * 100 * 100, stats.hits + entries)
    ELSE 0

\* get_stats' "hit_rate": f"{hits / total_queries * 100:.2f}%", 0 when
\* nothing was queried; held as the number of hundredths of a percent that
\* the string shows ("40.00%" is 4000).
hit_rate(stats, entries) ==
    IF stats.total_queries > 0
    THEN RoundDiv(stats.hits * 100 * 100, stats.total_queries)
    ELSE 0

\* The dict get_stats returns.
get_stats ==
    [enabled |-> cache_enabled,
     total_entries |-> Len(cache),
     max_size |-> cache_max_size,
     ttl_seconds |-> cache_ttl,
     hits |-> cache_stats.hits,
     misses |-> cache_stats.misses,
     total_queries |-> cache_stats.total_queries,
     hit_rate |-> hit_rate(cache_stats, Len(cache))]

\* The threads, and a thread that is in no call.
Threads == {"t1", "t2"}
IdleThread ==
    [pc |-> "idle", name |-> "none", query |-> "", params |-> RetrievalParams(0, 0, 0),
     results |-> <<>>, loaded |-> FALSE, tmp |-> 0,
     seen |-> <<>>, expired_keys |-> <<>>, oldest_key |-> <<>>,
     ret |-> None, raised |-> "", at |-> ""]
NoThreads == [t \in Threads |-> IdleThread]

\* ------------------------------------------ HybridRetriever: the fusion
\* One element of vector_results / keyword_results: (similarity, {"content",
\* "metadata"}).
Scored(sim, c, m) == [similarity |-> sim, content |-> c, metadata |-> m]

\* What a call got from its sources; the lists are empty where the source
\* raised.
Fetched(vr, kr, vraised, kraised, k) ==
    [called |-> TRUE, vector_results |-> vr, keyword_results |-> kr,
     vector_raised |-> vraised, keyword_raised |-> kraised, top_k |-> k]

NotFetched ==
    [called |-> FALSE, vector_results |-> <<>>, keyword_results |-> <<>>,
     vector_raised |-> FALSE, keyword_raised |-> FALSE, top_k |-> 0]

\* combined_results and result_metadata, both keyed by hash(content), as
\* one table of rows [hash, score, result] in the order the dicts got their
\* keys.
HasHash(table, h) == \E i \in 1..Len(table) : table[i].hash = h

\* combined_results[content_hash] += similarity * self.vector_weight
\* result_metadata[content_hash] = result
AddVector(table, item) ==
    LET h == content_hash[item.content]
    IN  IF HasHash(table, h)
        THEN [i \in 1..Len(table) |->
                IF table[i].hash = h
                THEN [hash |-> h,
                      score |-> table[i].score + item.similarity * vector_weight,
                      result |-> item]
                ELSE table[i]]
        ELSE Append(table, [hash |-> h,
                            score |-> 0 + item.similarity * vector_weight,
                            result |-> item])

\* combined_results[content_hash] += similarity * self.keyword_weight
\* if content_hash not in result_metadata: result_metadata[content_hash] = result
AddKeyword(table, item) ==
    LET h == content_hash[item.content]
    IN  IF HasHash(table, h)
        THEN [i \in 1..Len(table) |->
                IF table[i].hash = h
                THEN [table[i] EXCEPT !.score = @ + item.similarity * keyword_weight]
                ELSE table[i]]
        ELSE Append(table, [hash |-> h,
                            score |-> 0 + item.similarity * keyword_weight,
                            result |-> item])

RECURSIVE MergeVector(_, _)
MergeVector(table, list) ==
    IF list = <<>> THEN table
    ELSE MergeVector(AddVector(table, Head(list)), Tail(list))

RECURSIVE MergeKeyword(_, _)
MergeKeyword(table, list) ==
    IF list = <<>> THEN table
    ELSE MergeKeyword(AddKeyword(table, Head(list)), Tail(list))

\* Mutant: ties come out in reverse (an ascending sort, reversed).
InsertDesc_reversing(sorted, row) ==
    LET n == Cardinality({i \in 1..Len(sorted) : sorted[i].score > row.score})
    IN  SubSeq(sorted, 1, n) \o <<row>> \o SubSeq(sorted, n + 1, Len(sorted))

\* sorted(..., key=score, reverse=True) is stable: a row goes behind every
\* row placed before it whose score is at least its own.
InsertDesc(sorted, row) ==
    LET n == Cardinality({i \in 1..Len(sorted) : sorted[i].score >= row.score})
    IN  SubSeq(sorted, 1, n) \o <<row>> \o SubSeq(sorted, n + 1, Len(sorted))

RECURSIVE SortedDesc(_)
SortedDesc(rows) ==
    IF rows = <<>> THEN <<>>
    ELSE InsertDesc(SortedDesc(SubSeq(rows, 1, Len(rows) - 1)), rows[Len(rows)])

\* seq[:k]
SliceTo(seq, k) ==
    LET n == IF k >= 0 THEN (IF k < Len(seq) THEN k ELSE Len(seq))
             ELSE (IF Len(seq) + k > 0 THEN Len(seq) + k ELSE 0)
    IN  SubSeq(seq, 1, n)

\* Lines 134-161: the two lists fused into final_results.
Fuse(vector_results, keyword_results, k) ==
    LET table == MergeKeyword(MergeVector(<<>>, vector_results), keyword_results)
        top == SliceTo(SortedDesc(table), k)
    IN  [i \in 1..Len(top) |->
            Passage(top[i].result.content, top[i].result.metadata, top[i].score)]

\* A weight that is no number: adjust_retrieval_weights stores whatever it
\* is given, None included.
NotANumber == 0 - 100

\* Lines 134-146 raise TypeError: `similarity * self.vector_weight` with a
\* weight that is no number, reached when the list has a result.
FuseRaises(vector_results, keyword_results) ==
    \/ vector_results # <<>> /\ vector_weight = NotANumber
    \/ keyword_results # <<>> /\ keyword_weight = NotANumber

\* ------------------------------------- HybridRetriever: the two sources
\* What a source hands to hybrid_retrieval: a list, or an exception.
Returned(list) == [raised |-> FALSE, results |-> list]
Raised == [raised |-> TRUE, results |-> <<>>]

\* One (doc, score) pair of similarity_search_with_score; score is a
\* distance.
Found(c, m, d) == [content |-> c, metadata |-> m, distance |-> d]

\* Mutant: the exception of the vector store is not caught.
vector_retrieval_unguarded(search) ==
    IF search.raised THEN Raised
    ELSE Returned([i \in 1..Len(search.results) |->
                    Scored(Unit - search.results[i].distance,
                           search.results[i].content,
                           search.results[i].metadata)])

\* vector_retrieval, given what similarity_search_with_score(query, k) did:
\* raised, or returned (doc, distance) pairs.
vector_retrieval(search) ==
    IF search.raised THEN Returned(<<>>)
    ELSE Returned([i \in 1..Len(search.results) |->
                    Scored(Unit - search.results[i].distance,
                           search.results[i].content,
                           search.results[i].metadata)])

NoMatrix == [some |-> FALSE, rows |-> 0]
Matrix(n) == [some |-> TRUE, rows |-> n]

\* seq[start:] for any integer start.
SliceFrom(seq, start) ==
    LET n == IF start < 0
             THEN (IF Len(seq) + start > 0 THEN Len(seq) + start ELSE 0)
             ELSE (IF start < Len(seq) THEN start ELSE Len(seq))
    IN  SubSeq(seq, n + 1, Len(seq))

Reversed(seq) == [i \in 1..Len(seq) |-> seq[Len(seq) + 1 - i]]

\* The orders argsort() may give: ascending similarity, equal values in any
\* order.
ArgSorts(similarities) ==
    LET n == Len(similarities)
    IN  {p \in [1..n -> 1..n] :
            /\ \A i, j \in 1..n : i # j => p[i] # p[j]
            /\ \A i, j \in 1..n : i < j => similarities[p[i]] <= similarities[p[j]]}

\* keyword_retrieval, given what transform / cosine_similarity / argsort
\* did: raised, or gave one similarity per matrix row and an order.
keyword_retrieval(computed, top_k) ==
    IF documents_cache = <<>> \/ ~tfidf_matrix.some THEN Returned(<<>>)
    ELSE IF computed.raised THEN Returned(<<>>)
    ELSE LET top_indices == Reversed(SliceFrom(computed.argsort, 0 - top_k))
             positive == SelectSeq(top_indices,
                                   LAMBDA idx : computed.similarities[idx] > 0)
         IN  IF \E i \in 1..Len(positive) : positive[i] > Len(documents_cache)
             THEN Returned(<<>>)      \* IndexError, caught
             ELSE Returned([i \in 1..Len(positive) |->
                     Scored(computed.similarities[positive[i]],
                            documents_cache[positive[i]].content,
                            documents_cache[positive[i]].metadata)])

\* _build_keyword_index, given the documents the store holds and what
\* vector_store.get() and fit_transform did with them (get raised, get
\* returned nothing or a dict without "documents", fit_transform raised):
\* the new documents_cache and tfidf_matrix.
build_keyword_index(docs_before, matrix_before, stored) ==
    IF stored.raised \/ stored.nothing
    THEN [documents_cache |-> docs_before, tfidf_matrix |-> matrix_before,
          corpus |-> stored.documents]
    ELSE LET docs == [i \in 1..Len(stored.documents) |->
                        [content |-> stored.documents[i], metadata |-> <<>>, id |-> i - 1]]
         IN  [documents_cache |-> docs,
              tfidf_matrix |-> IF docs # <<>> /\ ~stored.fit_raised
                               THEN Matrix(Len(docs)) ELSE matrix_before,
              corpus |-> stored.documents]

\* Mutant: a miss stores nothing.
HybridCall_not_stored(query, top_k, search, computed) ==
    LET retrieval_params == RetrievalParams(vector_weight, keyword_weight, top_k)
        g == IF cache_enabled
             THEN CacheGet(cache, cache_stats, query, retrieval_params, now)
             ELSE [cache |-> cache, stats |-> cache_stats, ret |-> None]
        v == vector_retrieval(search)
        k == keyword_retrieval(computed, top_k * 2)
    IN  IF g.ret.some
        THEN [cache |-> g.cache, stats |-> g.stats, ret |-> g.ret, fetched |-> NotFetched]
        ELSE [cache |-> g.cache, stats |-> g.stats,
              ret |-> Some(Fuse(v.results, k.results, top_k)),
              fetched |-> Fetched(v.results, k.results, search.raised, computed.raised, top_k)]

\* Mutant: a call that fails before query_cache.set stores the empty list
\* it returns.
HybridCall_stores_failure(query, top_k, search, computed) ==
    LET retrieval_params == RetrievalParams(vector_weight, keyword_weight, top_k)
        g == IF cache_enabled
             THEN CacheGet(cache, cache_stats, query, retrieval_params, now)
             ELSE [cache |-> cache, stats |-> cache_stats, ret |-> None]
        v == vector_retrieval(search)
        k == keyword_retrieval(computed, top_k * 2)
        final_results == IF FuseRaises(v.results, k.results) THEN <<>>
                         ELSE Fuse(v.results, k.results, top_k)
    IN  IF g.ret.some
        THEN [cache |-> g.cache, stats |-> g.stats, ret |-> g.ret, fetched |-> NotFetched]
        ELSE [cache |-> IF cache_enabled
                        THEN CacheSet(g.cache, query, retrieval_params, final_results, now)
                        ELSE g.cache,
              stats |-> g.stats,
              ret |-> Some(final_results),
              fetched |-> Fetched(v.results, k.results, search.raised, computed.raised, top_k)]

\* hybrid_retrieval(query, top_k): the cache, the statistics, the list
\* returned and what was fetched.
HybridCall(query, top_k, search, computed) ==
    LET retrieval_params == RetrievalParams(vector_weight, keyword_weight, top_k)
        g == IF cache_enabled
             THEN CacheGet(cache, cache_stats, query, retrieval_params, now)
             ELSE [cache |-> cache, stats |-> cache_stats, ret |-> None]
        v == vector_retrieval(search)
        k == keyword_retrieval(computed, top_k * 2)
        final_results == Fuse(v.results, k.results, top_k)
    IN  IF g.ret.some
        THEN [cache |-> g.cache, stats |-> g.stats, ret |-> g.ret, fetched |-> NotFetched]
        ELSE IF v.raised \/ k.raised \/ FuseRaises(v.results, k.results)
        THEN \* except Exception: return []
             [cache |-> g.cache, stats |-> g.stats, ret |-> Some(<<>>),
              fetched |-> Fetched(v.results, k.results, search.raised, computed.raised, top_k)]
        ELSE IF CacheSetRaises
        THEN \* query_cache.set raised: except Exception: return []
             [cache |-> evict_if_needed(cleanup_expired(g.cache, now)),
              stats |-> g.stats, ret |-> Some(<<>>),
              fetched |-> Fetched(v.results, k.results, search.raised, computed.raised, top_k)]
        ELSE [cache |-> IF cache_enabled
                        THEN CacheSet(g.cache, query, retrieval_params, final_results, now)
                        ELSE g.cache,
              stats |-> g.stats,
              ret |-> Some(final_results),
              fetched |-> Fetched(v.results, k.results, search.raised, computed.raised, top_k)]

\* ------------------------------------------------------ SpecFuse
\* The lists a source can return: up to MaxList results, each with a
\* similarity and a content; the metadata names the occurrence (the chunk
\* the result came from).
SourceLists(tag) ==
    UNION {{[i \in 1..n |-> Scored(f[i][1], f[i][2], <<tag, i>>)] :
                f \in [1..n -> Similarities \X Contents]} : n \in 0..MaxList}

FuseWeights == {<<0, 0>>, <<0, 1>>, <<2, 0>>, <<2, 1>>}

InitFuse ==
    /\ threads = NoThreads
    /\ get_calls = 0
    /\ cache_enabled = FALSE
    /\ cache_ttl = 0
    /\ cache_max_size = 1
    /\ cache = <<>>
    /\ cache_stats = ZeroStats
    /\ now = 0
    /\ op = NoCall
    /\ ret = None
    /\ evicted = {}
    /\ touchOrder = <<>>
    /\ resetSeen = FALSE
    /\ \E w \in FuseWeights : vector_weight = w[1] /\ keyword_weight = w[2]
    /\ content_hash \in [Contents -> HashValues]
    /\ documents_cache = <<>>
    /\ corpus = <<>>
    /\ tfidf_matrix = NoMatrix
    /\ \E vr \in SourceLists("v"), kr \in SourceLists("k"), k \in TopKs :
          fetched = Fetched(vr, kr, FALSE, FALSE, k)

\* The fusion step applied to the lists fetched.
FuseStep ==
    /\ UNCHANGED <<threads, get_calls>>
    /\ ~ret.some
    /\ ret' = Some(Fuse(fetched.vector_results, fetched.keyword_results, fetched.top_k))
    /\ op' = Call("fuse", "", RetrievalParams(vector_weight, keyword_weight, fetched.top_k))
    /\ UNCHANGED <<cacheVars, retrieverVars, fetched, evicted, touchOrder, resetSeen>>

NextFuse == FuseStep

SpecFuse == InitFuse /\ [][NextFuse]_vars

\* ------------------------------------------------------ SpecHybrid
\* What the vector store can answer to a search: an exception, or a list of
\* (doc, distance) pairs.
Searches ==
    {Raised,
     Returned(<<Found("c2", <<"v", 2>>, 8), Found("c1", <<"v", 1>>, 9)>>)}

\* What transform / cosine_similarity / argsort can do on the current
\* matrix: raise, or give similarities and an order.
KeywordSimilarities == {1}
Computations ==
    {[raised |-> TRUE, similarities |-> <<>>, argsort |-> <<>>]}
    \cup UNION {{[raised |-> FALSE, similarities |-> sims, argsort |-> p] :
                    p \in ArgSorts(sims)} :
                sims \in [1..tfidf_matrix.rows -> KeywordSimilarities]}

\* What vector_store.get() and fit_transform can do at a rebuild.
Stores ==
    {[raised |-> FALSE, nothing |-> FALSE, documents |-> <<>>, fit_raised |-> FALSE],
     [raised |-> FALSE, nothing |-> FALSE, documents |-> <<"c1", "c2">>, fit_raised |-> FALSE]}

\* The calls SpecHybrid makes: one query at one top_k, under two weight
\* settings.
HybridQueries == {"q1"}
HybridTopKs == {MaxTopK}
WeightSettings == {<<DefaultVectorWeight, DefaultKeywordWeight>>, <<0, Unit>>}

NoParams == RetrievalParams(0, 0, 0)

\* hybrid_retrieval(query, top_k), while the cache counts fewer than `limit`
\* queries.
HybridRetrievalCall(query, top_k, search, computed, limit) ==
    /\ UNCHANGED threads
    /\ get_calls' = IF cache_enabled THEN get_calls + 1 ELSE get_calls
    /\ cache_enabled => cache_stats.total_queries < limit
    /\ Len(search.results) <= top_k * 2
    /\ computed.raised => (documents_cache # <<>> /\ tfidf_matrix.some)
    /\ LET h == HybridCall(query, top_k, search, computed)
       IN  /\ cache' = h.cache
           /\ cache_stats' = h.stats
           /\ ret' = h.ret
           /\ fetched' = h.fetched
    /\ op' = Call("hybrid_retrieval", query,
                  RetrievalParams(vector_weight, keyword_weight, top_k))
    /\ UNCHANGED <<cache_enabled, cache_ttl, cache_max_size, now, retrieverVars,
                   evicted, touchOrder, resetSeen>>

HybridRetrieval(query, top_k, search, computed) ==
    HybridRetrievalCall(query, top_k, search, computed, MaxCalls)

UpdateKeywordIndex(stored) ==
    /\ UNCHANGED <<threads, get_calls>>
    /\ LET b == build_keyword_index(documents_cache, tfidf_matrix, stored)
       IN  /\ documents_cache' = b.documents_cache
           /\ tfidf_matrix' = b.tfidf_matrix
           /\ corpus' = b.corpus
    /\ op' = Call("update_keyword_index", "", NoParams)
    /\ ret' = None
    /\ fetched' = NotFetched
    /\ UNCHANGED <<cacheVars, vector_weight, keyword_weight, content_hash,
                   evicted, touchOrder, resetSeen>>

AdjustRetrievalWeights(vw, kw) ==
    /\ UNCHANGED <<threads, get_calls>>
    /\ vector_weight' = vw
    /\ keyword_weight' = kw
    /\ op' = Call("adjust_retrieval_weights", "", NoParams)
    /\ ret' = None
    /\ fetched' = NotFetched
    /\ UNCHANGED <<cacheVars, content_hash, documents_cache, tfidf_matrix, corpus,
                   evicted, touchOrder, resetSeen>>

ClearCache ==
    /\ UNCHANGED threads
    /\ get_calls' = 0
    /\ cache' = CacheClear(cache, cache_stats).cache
    /\ cache_stats' = CacheClear(cache, cache_stats).stats
    /\ op' = Call("clear_cache", "", NoParams)
    /\ ret' = None
    /\ fetched' = NotFetched
    /\ UNCHANGED <<cache_enabled, cache_ttl, cache_max_size, now, retrieverVars,
                   evicted, touchOrder, resetSeen>>

InvalidateCacheByQuery(query) ==
    /\ UNCHANGED <<threads, get_calls>>
    /\ cache' = IF cache_enabled
                THEN invalidate_by_query(cache, query)
                ELSE cache
    /\ op' = Call("invalidate_cache_by_query", query, NoParams)
    /\ ret' = None
    /\ fetched' = NotFetched
    /\ UNCHANGED <<cache_enabled, cache_ttl, cache_max_size, cache_stats, now,
                   retrieverVars, evicted, touchOrder, resetSeen>>

\* time.time() moves on between two calls.
Elapse ==
    /\ UNCHANGED <<threads, get_calls>>
    /\ now < MaxTime
    /\ now' = now + 1
    /\ UNCHANGED <<cache_enabled, cache_ttl, cache_max_size, cache, cache_stats,
                   retrieverVars, callVars, fetched>>

InitHybrid ==
    /\ threads = NoThreads
    /\ get_calls = 0
    /\ cache_enabled \in BOOLEAN
    /\ cache_ttl \in {0, MaxTTL}
    /\ cache_max_size \in {1, MaxCap}
    /\ cache = <<>>
    /\ cache_stats = ZeroStats
    /\ now = 0
    /\ vector_weight = DefaultVectorWeight
    /\ keyword_weight = DefaultKeywordWeight
    /\ content_hash = [c \in Contents |-> IF c = "c1" THEN 1 ELSE 2]
    /\ \E stored \in Stores :
          LET b == build_keyword_index(<<>>, NoMatrix, stored)
          IN  /\ documents_cache = b.documents_cache
              /\ tfidf_matrix = b.tfidf_matrix
              /\ corpus = b.corpus
    /\ op = NoCall
    /\ ret = None
    /\ fetched = NotFetched
    /\ evicted = {}
    /\ touchOrder = <<>>
    /\ resetSeen = FALSE

NextHybrid ==
    \/ \E query \in HybridQueries, top_k \in HybridTopKs, search \in Searches,
          computed \in Computations :
            HybridRetrieval(query, top_k, search, computed)
    \/ \E stored \in Stores : UpdateKeywordIndex(stored)
    \/ \E w \in WeightSettings : AdjustRetrievalWeights(w[1], w[2])
    \/ ClearCache
    \/ \E query \in HybridQueries : InvalidateCacheByQuery(query)
    \/ Elapse

SpecHybrid == InitHybrid /\ [][NextHybrid]_vars

\* ------------------------------------------------------ SpecFault
\* The retriever over a cache whose set raises: CACHE_MAX_SIZE=0 is accepted
\* by __init__ (int(os.getenv(...)), no check).
InitFault ==
    /\ threads = NoThreads
    /\ get_calls = 0
    /\ cache_enabled = TRUE
    /\ cache_ttl \in {0, MaxTTL}
    /\ cache_max_size = 0
    /\ cache = <<>>
    /\ cache_stats = ZeroStats
    /\ now = 0
    /\ vector_weight = DefaultVectorWeight
    /\ keyword_weight = DefaultKeywordWeight
    /\ content_hash = [c \in Contents |-> IF c = "c1" THEN 1 ELSE 2]
    /\ \E stored \in Stores :
          LET b == build_keyword_index(<<>>, NoMatrix, stored)
          IN  /\ documents_cache = b.documents_cache
              /\ tfidf_matrix = b.tfidf_matrix
              /\ corpus = b.corpus
    /\ op = NoCall
    /\ ret = None
    /\ fetched = NotFetched
    /\ evicted = {}
    /\ touchOrder = <<>>
    /\ resetSeen = FALSE

SpecFault == InitFault /\ [][NextHybrid]_vars

\* ------------------------------------------------------ SpecFlow
\* The retriever with the vector weight set to a number or to a value that
\* is no number, which makes the fusion of a non-empty vector list raise.
FlowWeightSettings ==
    {<<DefaultVectorWeight, DefaultKeywordWeight>>, <<NotANumber, DefaultKeywordWeight>>}

NextFlow ==
    \/ \E query \in HybridQueries, top_k \in HybridTopKs, search \in Searches,
          computed \in Computations :
            HybridRetrieval(query, top_k, search, computed)
    \/ \E stored \in Stores : UpdateKeywordIndex(stored)
    \/ \E w \in FlowWeightSettings : AdjustRetrievalWeights(w[1], w[2])
    \/ Elapse

SpecFlow == InitHybrid /\ [][NextFlow]_vars

\* ------------------------------------------------------ SpecInvalid
\* The retriever called with any top_k and set to any weights, the invalid
\* ones included: neither hybrid_retrieval nor adjust_retrieval_weights
\* tests its arguments.  The cache is enabled and never expires; the keyword
\* index holds two documents.
AnyTopKs == {0 - 1, 0, MaxTopK}
AnyWeightSettings ==
    {<<DefaultVectorWeight, DefaultKeywordWeight>>,
     <<0 - 1, DefaultKeywordWeight>>,
     <<DefaultVectorWeight, 0 - 1>>}

InvalidConfig(retrieval_params) ==
    \/ retrieval_params.vector_weight < 0
    \/ retrieval_params.keyword_weight < 0
    \/ retrieval_params.top_k <= 0

InitInvalid ==
    /\ threads = NoThreads
    /\ get_calls = 0
    /\ cache_enabled = TRUE
    /\ cache_ttl = 0
    /\ cache_max_size = MaxCap
    /\ cache = <<>>
    /\ cache_stats = ZeroStats
    /\ now = 0
    /\ vector_weight = DefaultVectorWeight
    /\ keyword_weight = DefaultKeywordWeight
    /\ content_hash = [c \in Contents |-> IF c = "c1" THEN 1 ELSE 2]
    /\ LET b == build_keyword_index(<<>>, NoMatrix,
                    [raised |-> FALSE, nothing |-> FALSE, documents |-> <<"c1", "c2">>, fit_raised |-> FALSE])
       IN  /\ documents_cache = b.documents_cache
           /\ tfidf_matrix = b.tfidf_matrix
           /\ corpus = b.corpus
    /\ op = NoCall
    /\ ret = None
    /\ fetched = NotFetched
    /\ evicted = {}
    /\ touchOrder = <<>>
    /\ resetSeen = FALSE

NextInvalid ==
    \/ \E query \in HybridQueries, top_k \in AnyTopKs, search \in Searches,
          computed \in Computations :
            HybridRetrieval(query, top_k, search, computed)
    \/ \E w \in AnyWeightSettings : AdjustRetrievalWeights(w[1], w[2])
    \/ ClearCache

SpecInvalid == InitInvalid /\ [][NextInvalid]_vars

\* ------------------------------------------------------ SpecConfigs
\* One query retrieved under every pairing of two weight settings with the
\* values of top_k, on an enabled cache whose entries never expire.
MaxConfigCalls == 4

\* The smallest and the largest top_k, a search that answers, and the
\* keyword computations that answer.
ConfigTopKs == {1, MaxTopK}
ConfigSearches == {search \in Searches : ~search.raised}
ConfigComputations == {computed \in Computations : ~computed.raised}

InitConfigs ==
    /\ threads = NoThreads
    /\ get_calls = 0
    /\ cache_enabled = TRUE
    /\ cache_ttl = 0
    /\ cache_max_size = MaxCap
    /\ cache = <<>>
    /\ cache_stats = ZeroStats
    /\ now = 0
    /\ vector_weight = DefaultVectorWeight
    /\ keyword_weight = DefaultKeywordWeight
    /\ content_hash = [c \in Contents |-> IF c = "c1" THEN 1 ELSE 2]
    /\ LET b == build_keyword_index(<<>>, NoMatrix,
                   [raised |-> FALSE, nothing |-> FALSE, documents |-> <<"c1", "c2">>, fit_raised |-> FALSE])
       IN  /\ documents_cache = b.documents_cache
           /\ tfidf_matrix = b.tfidf_matrix
           /\ corpus = b.corpus
    /\ op = NoCall
    /\ ret = None
    /\ fetched = NotFetched
    /\ evicted = {}
    /\ touchOrder = <<>>
    /\ resetSeen = FALSE

NextConfigs ==
    \/ \E query \in HybridQueries, top_k \in ConfigTopKs, search \in ConfigSearches,
          computed \in ConfigComputations :
            HybridRetrievalCall(query, top_k, search, computed, MaxConfigCalls)
    \/ \E w \in WeightSettings : AdjustRetrievalWeights(w[1], w[2])
    \/ ClearCache

SpecConfigs == InitConfigs /\ [][NextConfigs]_vars

\* ------------------------------------------------------ SpecIndex
\* Rebuilds of the keyword index that can fail: vector_store.get() raises
\* (the retriever keeps the store object it was built with, whose collection
\* clear_knowledge_base deletes) or returns nothing, or fit_transform raises
\* (TfidfVectorizer raises ValueError on a corpus with an empty vocabulary).
\* The cache is off, so every call retrieves.
IndexStores ==
    Stores \cup
    {[raised |-> TRUE, nothing |-> FALSE, documents |-> <<>>, fit_raised |-> FALSE],
     [raised |-> FALSE, nothing |-> TRUE, documents |-> <<>>, fit_raised |-> FALSE],
     [raised |-> FALSE, nothing |-> FALSE, documents |-> <<"c1">>, fit_raised |-> FALSE],
     [raised |-> FALSE, nothing |-> FALSE, documents |-> <<"c2">>, fit_raised |-> TRUE]}

\* Similarities of the query to the matrix rows, 0 included (a row that
\* shares no term with the query).
IndexSimilarities == {0, 1}
IndexComputations ==
    {[raised |-> TRUE, similarities |-> <<>>, argsort |-> <<>>]}
    \cup UNION {{[raised |-> FALSE, similarities |-> sims, argsort |-> p] :
                    p \in ArgSorts(sims)} :
                sims \in [1..tfidf_matrix.rows -> IndexSimilarities]}

InitIndex ==
    /\ threads = NoThreads
    /\ get_calls = 0
    /\ cache_enabled = FALSE
    /\ cache_ttl = MaxTTL
    /\ cache_max_size = MaxCap
    /\ cache = <<>>
    /\ cache_stats = ZeroStats
    /\ now = 0
    /\ vector_weight = DefaultVectorWeight
    /\ keyword_weight = DefaultKeywordWeight
    /\ content_hash = [c \in Contents |-> IF c = "c1" THEN 1 ELSE 2]
    /\ \E stored \in IndexStores :
          LET b == build_keyword_index(<<>>, NoMatrix, stored)
          IN  /\ documents_cache = b.documents_cache
              /\ tfidf_matrix = b.tfidf_matrix
              /\ corpus = b.corpus
    /\ op = NoCall
    /\ ret = None
    /\ fetched = NotFetched
    /\ evicted = {}
    /\ touchOrder = <<>>
    /\ resetSeen = FALSE

NextIndex ==
    \/ \E query \in HybridQueries, top_k \in TopKs, search \in Searches,
          computed \in IndexComputations :
            HybridRetrieval(query, top_k, search, computed)
    \/ \E stored \in IndexStores : UpdateKeywordIndex(stored)
    \/ \E w \in WeightSettings : AdjustRetrievalWeights(w[1], w[2])

SpecIndex == InitIndex /\ [][NextIndex]_vars

\* ------------------------------------------------------ SpecThreads
\* Two threads, one get or set call each, on one QueryCacheManager that
\* takes no lock: a thread switch can fall between any two accesses to
\* self.cache or self.cache_stats.  pc names the source line a thread is
\* about to run.  The clock stands still while the calls run.
KeySeq(c) == [i \in 1..Len(c) |-> KeyOf(c[i])]

ThreadKey(t) == generate_cache_key(threads[t].query, threads[t].params)

Raise(t, exception) ==
    [threads EXCEPT ![t].pc = "raised", ![t].raised = exception, ![t].at = threads[t].pc]

\* The statements `self.cache_stats[...] += 1`: which counter, and where the
\* thread goes next.
CounterPcs == {"get_72", "get_81", "get_85", "get_90"}
CounterOf(pc) ==
    IF pc = "get_72" THEN "total_queries"
    ELSE IF pc = "get_85" THEN "hits" ELSE "misses"
AfterCounter(pc) ==
    IF pc = "get_72" THEN "get_76"
    ELSE IF pc = "get_85" THEN "get_86" ELSE "returned"

CallGet(t, query, retrieval_params) ==
    /\ threads[t].pc = "idle"
    /\ threads' = [threads EXCEPT ![t] =
          [IdleThread EXCEPT !.name = "get", !.query = query,
                             !.params = retrieval_params,
                             !.pc = IF cache_enabled THEN "get_72" ELSE "returned"]]
    /\ UNCHANGED <<cacheVars, retrieverVars, callVars, fetched, get_calls>>

\* += 1, first half: read the counter.
LoadCounter(t) ==
    /\ threads[t].pc \in CounterPcs
    /\ ~threads[t].loaded
    /\ threads' = [threads EXCEPT ![t].loaded = TRUE,
                                  ![t].tmp = cache_stats[CounterOf(threads[t].pc)]]
    /\ UNCHANGED <<cacheVars, retrieverVars, callVars, fetched, get_calls>>

\* += 1, second half: write the value read plus one.
StoreCounter(t) ==
    /\ threads[t].pc \in CounterPcs
    /\ threads[t].loaded
    /\ cache_stats' = [cache_stats EXCEPT ![CounterOf(threads[t].pc)] = threads[t].tmp + 1]
    /\ threads' = [threads EXCEPT ![t].loaded = FALSE,
                                  ![t].pc = AfterCounter(threads[t].pc)]
    /\ UNCHANGED <<cache_enabled, cache_ttl, cache_max_size, cache, now,
                   retrieverVars, callVars, fetched, get_calls>>

\* if cache_key in self.cache
GetTest(t) ==
    /\ threads[t].pc = "get_76"
    /\ threads' = [threads EXCEPT ![t].pc =
                      IF ThreadKey(t) \in Keys(cache) THEN "get_77" ELSE "get_90"]
    /\ UNCHANGED <<cacheVars, retrieverVars, callVars, fetched, get_calls>>

\* cache_entry = self.cache[cache_key]; if self._is_expired(cache_entry)
GetRead(t) ==
    /\ threads[t].pc = "get_77"
    /\ threads' =
          IF ThreadKey(t) \notin Keys(cache) THEN Raise(t, "KeyError")
          ELSE [threads EXCEPT
                  ![t].results = Lookup(cache, ThreadKey(t)).results,
                  ![t].pc = IF is_expired(Lookup(cache, ThreadKey(t)), now)
                            THEN "get_80" ELSE "get_85"]
    /\ UNCHANGED <<cacheVars, retrieverVars, callVars, fetched, get_calls>>

\* del self.cache[cache_key]
GetDelete(t) ==
    /\ threads[t].pc = "get_80"
    /\ IF ThreadKey(t) \notin Keys(cache)
       THEN threads' = Raise(t, "KeyError") /\ UNCHANGED cache
       ELSE /\ cache' = Delete(cache, ThreadKey(t))
            /\ threads' = [threads EXCEPT ![t].pc = "get_81"]
    /\ UNCHANGED <<cache_enabled, cache_ttl, cache_max_size, cache_stats, now,
                   retrieverVars, callVars, fetched, get_calls>>

\* self.cache.move_to_end(cache_key); return cache_entry["results"]
GetMove(t) ==
    /\ threads[t].pc = "get_86"
    /\ IF ThreadKey(t) \notin Keys(cache)
       THEN threads' = Raise(t, "KeyError") /\ UNCHANGED cache
       ELSE /\ cache' = move_to_end(cache, ThreadKey(t))
            /\ threads' = [threads EXCEPT ![t].pc = "returned",
                                          ![t].ret = Some(threads[t].results)]
    /\ UNCHANGED <<cache_enabled, cache_ttl, cache_max_size, cache_stats, now,
                   retrieverVars, callVars, fetched, get_calls>>

CallSet(t, query, retrieval_params, results) ==
    /\ threads[t].pc = "idle"
    /\ threads' = [threads EXCEPT ![t] =
          [IdleThread EXCEPT !.name = "set", !.query = query,
                             !.params = retrieval_params, !.results = results,
                             !.pc = IF cache_enabled THEN "set_47" ELSE "returned"]]
    /\ UNCHANGED <<cacheVars, retrieverVars, callVars, fetched, get_calls>>

\* _cleanup_expired: `for key, entry in self.cache.items()` creates the
\* iterator over the OrderedDict as it is now; tmp counts the items fetched.
SetScanBegin(t) ==
    /\ threads[t].pc = "set_47"
    /\ threads' = [threads EXCEPT ![t].seen = KeySeq(cache), ![t].tmp = 0,
                                  ![t].pc = "set_48"]
    /\ UNCHANGED <<cacheVars, retrieverVars, callVars, fetched, get_calls>>

\* One turn of the loop: the iterator is exhausted (the loop ends), or it
\* finds the OrderedDict mutated since it was created (RuntimeError), or it
\* yields the next item, which the body appends to expired_keys if expired.
SetScanNext(t) ==
    /\ threads[t].pc = "set_48"
    /\ threads' =
          IF threads[t].tmp >= Len(threads[t].seen)
          THEN [threads EXCEPT ![t].pc = IF threads[t].expired_keys = <<>>
                                         THEN "set_62" ELSE "set_52"]
          ELSE IF KeySeq(cache) # threads[t].seen THEN Raise(t, "RuntimeError")
          ELSE LET entry == cache[threads[t].tmp + 1]
               IN  [threads EXCEPT
                      ![t].tmp = threads[t].tmp + 1,
                      ![t].expired_keys =
                          IF is_expired(entry, now)
                          THEN Append(threads[t].expired_keys, KeyOf(entry))
                          ELSE threads[t].expired_keys]
    /\ UNCHANGED <<cacheVars, retrieverVars, callVars, fetched, get_calls>>

\* for key in expired_keys: del self.cache[key]
SetDeleteExpired(t) ==
    /\ threads[t].pc = "set_52"
    /\ LET key == Head(threads[t].expired_keys)
           rest == Tail(threads[t].expired_keys)
       IN  IF key \notin Keys(cache)
           THEN threads' = Raise(t, "KeyError") /\ UNCHANGED cache
           ELSE /\ cache' = Delete(cache, key)
                /\ threads' = [threads EXCEPT ![t].expired_keys = rest,
                                  ![t].pc = IF rest = <<>> THEN "set_62" ELSE "set_52"]
    /\ UNCHANGED <<cache_enabled, cache_ttl, cache_max_size, cache_stats, now,
                   retrieverVars, callVars, fetched, get_calls>>

\* while len(self.cache) >= self.cache_max_size: oldest_key = next(iter(self.cache))
SetEvictTest(t) ==
    /\ threads[t].pc = "set_62"
    /\ threads' =
          IF Len(cache) >= cache_max_size
          THEN IF cache = <<>> THEN Raise(t, "StopIteration")
               ELSE [threads EXCEPT ![t].oldest_key = KeyOf(cache[1]), ![t].pc = "set_64"]
          ELSE [threads EXCEPT ![t].pc = "set_104"]
    /\ UNCHANGED <<cacheVars, retrieverVars, callVars, fetched, get_calls>>

\* del self.cache[oldest_key]
SetEvictDelete(t) ==
    /\ threads[t].pc = "set_64"
    /\ IF threads[t].oldest_key \notin Keys(cache)
       THEN threads' = Raise(t, "KeyError") /\ UNCHANGED cache
       ELSE /\ cache' = Delete(cache, threads[t].oldest_key)
            /\ threads' = [threads EXCEPT ![t].pc = "set_62"]
    /\ UNCHANGED <<cache_enabled, cache_ttl, cache_max_size, cache_stats, now,
                   retrieverVars, callVars, fetched, get_calls>>

\* self.cache[cache_key] = {...}
SetAssign(t) ==
    /\ threads[t].pc = "set_104"
    /\ cache' = Assign(cache, ThreadKey(t),
                       [query |-> threads[t].query, params |-> threads[t].params,
                        results |-> threads[t].results, created_time |-> now])
    /\ threads' = [threads EXCEPT ![t].pc = "returned"]
    /\ UNCHANGED <<cache_enabled, cache_ttl, cache_max_size, cache_stats, now,
                   retrieverVars, callVars, fetched, get_calls>>

\* The calls the threads make, and the caches they find: up to two entries
\* stored at time 0 by earlier sequential set calls.
ThreadCalls == {<<"q1", DefaultParams(5)>>, <<"q2", DefaultParams(5)>>}
ThreadResults == <<Passage("c2", "m2", 2)>>
StoredAtZero(call) ==
    [query |-> call[1], params |-> call[2],
     results |-> <<Passage("c1", "m1", 1)>>, created_time |-> 0]
InitialCaches ==
    {<<>>,
     <<StoredAtZero(<<"q1", DefaultParams(5)>>)>>,
     <<StoredAtZero(<<"q1", DefaultParams(5)>>), StoredAtZero(<<"q2", DefaultParams(5)>>)>>}

InitThreads ==
    /\ cache_enabled = TRUE
    /\ cache_ttl = MaxTTL
    /\ cache_max_size \in 1..MaxCap
    /\ cache \in {c \in InitialCaches : Len(c) <= cache_max_size}
    /\ cache_stats = ZeroStats
    /\ now \in {0, MaxTime}
    /\ vector_weight = DefaultVectorWeight
    /\ keyword_weight = DefaultKeywordWeight
    /\ content_hash = [c \in Contents |-> IF c = "c1" THEN 1 ELSE 2]
    /\ documents_cache = <<>>
    /\ corpus = <<>>
    /\ tfidf_matrix = NoMatrix
    /\ op = NoCall
    /\ ret = None
    /\ fetched = NotFetched
    /\ evicted = {}
    /\ touchOrder = <<>>
    /\ resetSeen = FALSE
    /\ threads = NoThreads
    /\ get_calls = 0

NextThreads ==
    \E t \in Threads :
        \/ \E call \in ThreadCalls : CallGet(t, call[1], call[2])
        \/ LoadCounter(t)
        \/ StoreCounter(t)
        \/ GetTest(t)
        \/ GetRead(t)
        \/ GetDelete(t)
        \/ GetMove(t)
        \/ \E call \in ThreadCalls : CallSet(t, call[1], call[2], ThreadResults)
        \/ SetScanBegin(t)
        \/ SetScanNext(t)
        \/ SetDeleteExpired(t)
        \/ SetEvictTest(t)
        \/ SetEvictDelete(t)
        \/ SetAssign(t)

SpecThreads == InitThreads /\ [][NextThreads]_vars

\* -------------------------------------------- bookkeeping of the recency
\* The order of the keys held by their most recent insert-or-hit, kept
\* beside the cache: a key touched goes to the end, a key no longer held
\* is dropped.
Without(s, k) == SelectSeq(s, LAMBDA x : x # k)

Touched(order, newCache, k) ==
    LET held == SelectSeq(order, LAMBDA x : x \in Keys(newCache))
    IN  IF k \in Keys(newCache) THEN Append(Without(held, k), k) ELSE held

\* The entries of c whose keys c2 no longer holds, by key and creation time.
Removed(c, c2) ==
    {[key |-> KeyOf(c[i]), created_time |-> c[i].created_time] :
        i \in {j \in 1..Len(c) : KeyOf(c[j]) \notin Keys(c2)}}

Held(order, newCache) == SelectSeq(order, LAMBDA x : x \in Keys(newCache))

\* ------------------------------------------------------- actions of Spec
\* get(query, retrieval_params), while fewer than `limit` queries are counted.
GetCall(query, retrieval_params, limit) ==
    /\ UNCHANGED threads
    /\ get_calls' = IF cache_enabled THEN get_calls + 1 ELSE get_calls
    /\ IF ~cache_enabled
       THEN /\ ret' = None
            /\ UNCHANGED <<cache, cache_stats, touchOrder>>
       ELSE /\ cache_stats.total_queries < limit
            /\ LET g == CacheGet(cache, cache_stats, query, retrieval_params, now)
               IN  /\ cache' = g.cache
                   /\ cache_stats' = g.stats
                   /\ ret' = g.ret
                   /\ touchOrder' =
                        IF resetSeen THEN <<>>
                        ELSE IF g.ret.some
                        THEN Touched(touchOrder, g.cache,
                                     generate_cache_key(query, retrieval_params))
                        ELSE Held(touchOrder, g.cache)
    /\ op' = Call("get", query, retrieval_params)
    /\ evicted' = IF cache_enabled THEN Removed(cache, cache') ELSE {}
    /\ UNCHANGED <<cache_enabled, cache_ttl, cache_max_size, now, resetSeen>>
    /\ UNCHANGED <<retrieverVars, fetched>>

Get(query, retrieval_params) == GetCall(query, retrieval_params, MaxQueries)

\* Mutant: set stores whether the cache is enabled or not.
SetStores_always == TRUE

\* set: `if not self.cache_enabled: return`.
SetStores == cache_enabled

Set(query, retrieval_params, results) ==
    /\ UNCHANGED <<threads, get_calls>>
    /\ IF ~SetStores
       THEN /\ evicted' = {}
            /\ UNCHANGED <<cache, touchOrder, resetSeen>>
       ELSE /\ cache' = CacheSet(cache, query, retrieval_params, results, now)
            /\ evicted' = Removed(cleanup_expired(cache, now),
                                   evict_if_needed(cleanup_expired(cache, now)))
            /\ resetSeen' =
                 (resetSeen \/ generate_cache_key(query, retrieval_params) \in Keys(cache))
            /\ touchOrder' =
                 IF resetSeen' THEN <<>>
                 ELSE Touched(touchOrder, cache',
                              generate_cache_key(query, retrieval_params))
    /\ op' = Call("set", query, retrieval_params)
    /\ ret' = None
    /\ UNCHANGED <<cache_enabled, cache_ttl, cache_max_size, cache_stats, now>>
    /\ UNCHANGED <<retrieverVars, fetched>>

Clear ==
    /\ UNCHANGED threads
    /\ get_calls' = 0
    /\ cache' = CacheClear(cache, cache_stats).cache
    /\ cache_stats' = CacheClear(cache, cache_stats).stats
    /\ evicted' = Removed(cache, cache')
    /\ touchOrder' = <<>>
    /\ resetSeen' = FALSE
    /\ op' = Call("clear", "", RetrievalParams(0, 0, 0))
    /\ ret' = None
    /\ UNCHANGED <<cache_enabled, cache_ttl, cache_max_size, now>>
    /\ UNCHANGED <<retrieverVars, fetched>>

InvalidateByQuery(query) ==
    /\ UNCHANGED <<threads, get_calls>>
    /\ IF ~cache_enabled
       THEN UNCHANGED <<cache, touchOrder>>
       ELSE /\ cache' = invalidate_by_query(cache, query)
            /\ touchOrder' = IF resetSeen THEN <<>> ELSE Held(touchOrder, cache')
    /\ op' = Call("invalidate_by_query", query, RetrievalParams(0, 0, 0))
    /\ ret' = None
    /\ evicted' = IF cache_enabled THEN Removed(cache, cache') ELSE {}
    /\ UNCHANGED <<cache_enabled, cache_ttl, cache_max_size, cache_stats, now, resetSeen>>
    /\ UNCHANGED <<retrieverVars, fetched>>

\* time.time() moves on between two calls; the record of the last call is
\* dropped with it.
Tick ==
    /\ UNCHANGED <<threads, get_calls>>
    /\ now < MaxTime
    /\ now' = now + 1
    /\ op' = NoCall
    /\ ret' = None
    /\ evicted' = {}
    /\ UNCHANGED <<cache_enabled, cache_ttl, cache_max_size, cache, cache_stats,
                   touchOrder, resetSeen>>
    /\ UNCHANGED <<retrieverVars, fetched>>

Init ==
    /\ threads = NoThreads
    /\ get_calls = 0
    /\ cache_enabled \in BOOLEAN
    /\ cache_ttl \in {0, MaxTTL}
    /\ cache_max_size \in 1..MaxCap
    /\ cache = <<>>
    /\ cache_stats = ZeroStats
    /\ now = 0
    /\ op = NoCall
    /\ ret = None
    /\ evicted = {}
    /\ touchOrder = <<>>
    /\ resetSeen = FALSE
    /\ vector_weight = DefaultVectorWeight
    /\ keyword_weight = DefaultKeywordWeight
    /\ content_hash = [c \in Contents |-> IF c = "c1" THEN 1 ELSE 2]
    /\ documents_cache = <<>>
    /\ corpus = <<>>
    /\ tfidf_matrix = NoMatrix
    /\ fetched = NotFetched

Next ==
    \/ \E c \in CacheCalls : Get(c[1], c[2])
    \/ \E c \in SetCalls : Set(c[1], c[2], c[3])
    \/ Clear
    \/ \E q \in Queries : InvalidateByQuery(q)
    \/ Tick

Spec == Init /\ [][Next]_vars

\* ------------------------------------------------------ SpecStats
\* The cache driven long enough for the counters to take several values,
\* with get_stats among the calls; a call of get_stats returns its dict as
\* the one element of ret.results.
MaxStatQueries == 5

StatCalls == {<<"q1", DefaultParams(5)>>, <<"q2", DefaultParams(5)>>}

GetStats ==
    /\ ret' = Some(<<get_stats>>)
    /\ op' = Call("get_stats", "", RetrievalParams(0, 0, 0))
    /\ evicted' = {}
    /\ UNCHANGED <<cacheVars, retrieverVars, fetched, touchOrder, resetSeen,
                   threads, get_calls>>

InitStats ==
    /\ threads = NoThreads
    /\ get_calls = 0
    /\ cache_enabled \in BOOLEAN
    /\ cache_ttl = MaxTTL
    /\ cache_max_size = 1
    /\ cache = <<>>
    /\ cache_stats = ZeroStats
    /\ now = 0
    /\ vector_weight = DefaultVectorWeight
    /\ keyword_weight = DefaultKeywordWeight
    /\ content_hash = [c \in Contents |-> IF c = "c1" THEN 1 ELSE 2]
    /\ documents_cache = <<>>
    /\ corpus = <<>>
    /\ tfidf_matrix = NoMatrix
    /\ op = NoCall
    /\ ret = None
    /\ fetched = NotFetched
    /\ evicted = {}
    /\ touchOrder = <<>>
    /\ resetSeen = FALSE

NextStats ==
    \/ \E c \in StatCalls : GetCall(c[1], c[2], MaxStatQueries)
    \/ \E c \in StatCalls : Set(c[1], c[2], <<Passage("c1", "m1", 1)>>)
    \/ Clear
    \/ \E q \in Queries : InvalidateByQuery(q)
    \/ Tick
    \/ GetStats

SpecStats == InitStats /\ [][NextStats]_vars

\* ------------------------------------------------------ SpecAlias
\* The caller keeps the list it passed to set, or the list get returned, and
\* changes it in place.  set stores the list it is given and get returns the
\* stored list (no copy is made on either side), so the caller's list and
\* the entry's "results" are one object.
MaxAliasGets == 2

\* In-place changes of a list: results.clear(), results[0]["score"] = 0,
\* results.append(...).
Mutations(results) ==
    ({<<>>}
     \cup (IF results # <<>> THEN {[results EXCEPT ![1].score = 0]} ELSE {})
     \cup (IF Len(results) < MaxList
           THEN {Append(results, Passage("c2", "m2", 0))} ELSE {})) \ {results}

\* The list the last call handed over is an entry's list: the call was a
\* set, or a get that hit, and the entry is still held.
CallerHoldsEntry ==
    /\ cache_enabled
    /\ op.name \in {"set", "get"}
    /\ op.name = "get" => ret.some
    /\ generate_cache_key(op.query, op.params) \in Keys(cache)

\* The caller changes its list; ret keeps the list as it was before.
CallerMutates ==
    /\ CallerHoldsEntry
    /\ LET key == generate_cache_key(op.query, op.params)
           i == IndexOf(cache, key)
       IN  \E changed \in Mutations(cache[i].results) :
              /\ ret' = Some(cache[i].results)
              /\ cache' = [cache EXCEPT ![i].results = changed]
    /\ op' = Call("mutate", op.query, op.params)
    /\ evicted' = {}
    /\ UNCHANGED <<cache_enabled, cache_ttl, cache_max_size, cache_stats, now,
                   retrieverVars, fetched, touchOrder, resetSeen, threads, get_calls>>

InitAlias ==
    /\ threads = NoThreads
    /\ get_calls = 0
    /\ cache_enabled = TRUE
    /\ cache_ttl = 0
    /\ cache_max_size = MaxCap
    /\ cache = <<>>
    /\ cache_stats = ZeroStats
    /\ now = 0
    /\ vector_weight = DefaultVectorWeight
    /\ keyword_weight = DefaultKeywordWeight
    /\ content_hash = [c \in Contents |-> IF c = "c1" THEN 1 ELSE 2]
    /\ documents_cache = <<>>
    /\ corpus = <<>>
    /\ tfidf_matrix = NoMatrix
    /\ op = NoCall
    /\ ret = None
    /\ fetched = NotFetched
    /\ evicted = {}
    /\ touchOrder = <<>>
    /\ resetSeen = FALSE

NextAlias ==
    \/ \E c \in StatCalls : GetCall(c[1], c[2], MaxAliasGets)
    \/ \E c \in StatCalls : Set(c[1], c[2], <<Passage("c1", "m1", 1)>>)
    \/ CallerMutates
    \/ Clear

SpecAlias == InitAlias /\ [][NextAlias]_vars

\* ====================================================== claims, under Spec
NoExpired(c, t) == \A i \in 1..Len(c) : ~is_expired(c[i], t)

\* c without its entry at position i, the others in their order.
DropAt(c, i) == [j \in 1..(Len(c) - 1) |-> IF j < i THEN c[j] ELSE c[j + 1]]

\* C1: on an enabled cache with cache_max_size >= 1, whenever a set call has
\* just returned the cache holds at most cache_max_size entries.
C1_SizeAfterSet ==
    (cache_enabled /\ cache_max_size >= 1 /\ op.name = "set")
        => Len(cache) <= cache_max_size

\* A set call has just returned from evicting for capacity and left the
\* cache exactly full.
C1_Witness ==
    /\ cache_enabled
    /\ op.name = "set"
    /\ evicted # {}
    /\ cache_max_size = MaxCap
    /\ Len(cache) = cache_max_size

\* C2: a get hit counts as a use.  When set inserts a new key into a full
\* cache that holds no expired entry, and no set call so far found its key
\* already held, exactly one entry leaves the cache: the one whose most
\* recent insert-or-hit is the oldest.
C2_EvictsLeastRecentlyUsed ==
    [][( /\ cache_enabled
         /\ ~resetSeen
         /\ op'.name = "set"
         /\ Len(cache) = cache_max_size
         /\ generate_cache_key(op'.query, op'.params) \notin Keys(cache)
         /\ NoExpired(cache, now) )
        => /\ Keys(cache) \ Keys(cache') = {Head(touchOrder)}
           /\ Len(cache') = cache_max_size]_vars

\* maxEntries = 2: the entry evicted was created after the entry that
\* stays, so the one that stays was saved by a hit.
C2_Witness ==
    /\ cache_enabled
    /\ cache_max_size = 2
    /\ ~resetSeen
    /\ op.name = "set"
    /\ Len(cache) = 2
    /\ cache_stats.hits = 1
    /\ \E e \in evicted : e.created_time > cache[1].created_time

\* C3 (the claim as stated): set for a key already held replaces the stored
\* results, refreshes the creation time and moves the key to the
\* most-recently-used end of the order.
C3_SetMovesKeyToEnd ==
    [][\A c \in SetCalls :
        ( /\ cache_enabled
          /\ op' = Call("set", c[1], c[2])
          /\ generate_cache_key(c[1], c[2]) \in Keys(cache)
          /\ Set(c[1], c[2], c[3]) )
        => LET k == generate_cache_key(c[1], c[2])
           IN  /\ k \in Keys(cache')
               /\ Lookup(cache', k).results = c[3]
               /\ Lookup(cache', k).created_time = now
               /\ KeyOf(cache'[Len(cache')]) = k]_vars

\* C4 (the claim as stated): with ttl S > 0, get returns an entry created
\* at T exactly when it is called before T + S.
C4_ExpiredFromTTL ==
    [][( /\ cache_enabled
         /\ cache_ttl > 0
         /\ op'.name = "get"
         /\ generate_cache_key(op'.query, op'.params) \in Keys(cache) )
        => LET e == Lookup(cache, generate_cache_key(op'.query, op'.params))
           IN  ret'.some <=> (now < e.created_time + cache_ttl)]_vars

\* C4 (amended): with ttl S > 0, get returns the results of an entry
\* created at T when called at a time <= T + S, and nothing at a time
\* > T + S: the entry is still served at exactly T + S.
C4_ExpiredAfterTTL ==
    [][( /\ cache_enabled
         /\ cache_ttl > 0
         /\ op'.name = "get"
         /\ generate_cache_key(op'.query, op'.params) \in Keys(cache) )
        => LET e == Lookup(cache, generate_cache_key(op'.query, op'.params))
           IN  ret' = IF now <= e.created_time + cache_ttl
                      THEN Some(e.results) ELSE None]_vars

\* A get has just returned an entry at exactly T + S.
C4_Witness ==
    /\ cache_enabled
    /\ cache_ttl > 0
    /\ op.name = "get"
    /\ ret.some
    /\ LET k == generate_cache_key(op.query, op.params)
       IN  /\ k \in Keys(cache)
           /\ now = Lookup(cache, k).created_time + cache_ttl

\* C5: a get whose key is held but expired removes that entry, returns
\* nothing and counts a miss (total_queries and misses one more, hits the
\* same); every other entry stays, in the same order.
C5_ExpiredGetIsMiss ==
    [][( /\ cache_enabled
         /\ op'.name = "get"
         /\ generate_cache_key(op'.query, op'.params) \in Keys(cache)
         /\ is_expired(Lookup(cache, generate_cache_key(op'.query, op'.params)), now) )
        => /\ cache' = DropAt(cache, IndexOf(cache, generate_cache_key(op'.query, op'.params)))
           /\ ret' = None
           /\ cache_stats'.total_queries = cache_stats.total_queries + 1
           /\ cache_stats'.misses = cache_stats.misses + 1
           /\ cache_stats'.hits = cache_stats.hits]_vars

\* A get has just missed on an expired entry and taken it out, one other
\* entry staying.
C5_Witness ==
    /\ cache_enabled
    /\ cache_ttl > 0
    /\ op.name = "get"
    /\ ~ret.some
    /\ cache_stats.misses = 1
    /\ \E e \in evicted : e.key = generate_cache_key(op.query, op.params)
    /\ Len(cache) >= 1

\* ------------------------------------------------------------ fusion claims
\* What the fusion step was given and what it returned.
FuseIn == fetched
FuseOut == ret.results
Fused == op.name = "fuse" /\ ret.some

Occurrences(list, content) == {i \in 1..Len(list) : list[i].content = content}
ContentsOf(list) == {list[i].content : i \in 1..Len(list)}

\* The rows of the fused table, and the row an output passage was made from.
FuseTable == MergeKeyword(MergeVector(<<>>, FuseIn.vector_results), FuseIn.keyword_results)
RowIn(table, p) ==
    CHOOSE t \in 1..Len(table) :
        /\ table[t].result.content = p.content
        /\ table[t].result.metadata = p.metadata

\* C7: every returned passage found in both lists scores vector_weight * its
\* vector score + keyword_weight * its keyword score, one found in a single
\* list scores that list's weight * its score there, and no passage is left
\* out for being absent from one list.
C7_FusedScore ==
    Fused =>
        /\ \A n \in 1..Len(FuseOut) :
            LET p == FuseOut[n]
                V == Occurrences(FuseIn.vector_results, p.content)
                K == Occurrences(FuseIn.keyword_results, p.content)
            IN  /\ (V # {} /\ K # {}) =>
                    \E i \in V, j \in K :
                        p.score = vector_weight * FuseIn.vector_results[i].similarity
                                  + keyword_weight * FuseIn.keyword_results[j].similarity
                /\ (V # {} /\ K = {}) =>
                    \E i \in V : p.score = vector_weight * FuseIn.vector_results[i].similarity
                /\ (V = {} /\ K # {}) =>
                    \E j \in K : p.score = keyword_weight * FuseIn.keyword_results[j].similarity
        /\ Len(FuseOut) < FuseIn.top_k =>
            ContentsOf(FuseIn.vector_results) \cup ContentsOf(FuseIn.keyword_results)
                \subseteq ContentsOf(FuseOut)

\* C8: the output is the fused table's rows by descending score, rows of
\* equal score in the order the merge first met them (vector list, then
\* keyword list), cut to the top_k first; a row left out never beats a row
\* kept.
C8_SortedTopK ==
    Fused =>
        LET table == FuseTable
            out == FuseOut
            row == [n \in 1..Len(out) |-> RowIn(table, out[n])]
            kept == {row[n] : n \in 1..Len(out)}
        IN  /\ Len(out) = (IF FuseIn.top_k < Len(table) THEN FuseIn.top_k ELSE Len(table))
            /\ \A n \in 1..Len(out) :
                /\ \E t \in 1..Len(table) :
                      /\ table[t].result.content = out[n].content
                      /\ table[t].result.metadata = out[n].metadata
                /\ out[n].score = table[row[n]].score
            /\ \A n, m \in 1..Len(out) :
                n < m =>
                    \/ out[n].score > out[m].score
                    \/ out[n].score = out[m].score /\ row[n] < row[m]
            /\ \A t \in (1..Len(table)) \ kept :
                \A n \in 1..Len(out) :
                    \/ out[n].score > table[t].score
                    \/ out[n].score = table[t].score /\ row[n] < t

\* Both weights zero, two rows tied at zero, top_k = 1: the vector list's
\* row is the one returned.
C8_Witness ==
    /\ Fused
    /\ vector_weight = 0 /\ keyword_weight = 0
    /\ FuseIn.top_k = 1
    /\ Len(FuseTable) = 2
    /\ Len(FuseOut) = 1
    /\ FuseOut[1].score = 0
    /\ FuseOut[1].metadata[1] = "v"
    /\ FuseTable[2].result.metadata[1] = "k"

\* C9: results are merged exactly when their content is equal: no content
\* is returned twice, every distinct content given is returned while top_k
\* has room, and a content found in both lists comes back with the metadata
\* of a vector-list occurrence.
C9_DedupByContent ==
    Fused =>
        /\ \A n, m \in 1..Len(FuseOut) :
            FuseOut[n].content = FuseOut[m].content => n = m
        /\ Len(FuseOut) < FuseIn.top_k =>
            ContentsOf(FuseOut) =
                ContentsOf(FuseIn.vector_results) \cup ContentsOf(FuseIn.keyword_results)
        /\ \A n \in 1..Len(FuseOut) :
            LET V == Occurrences(FuseIn.vector_results, FuseOut[n].content)
            IN  V # {} => \E i \in V : FuseOut[n].metadata = FuseIn.vector_results[i].metadata

\* ================================================ claims, under SpecHybrid
\* A hybrid_retrieval call that repeats the call before it: same query, same
\* top_k, same weights, nothing but time in between.
RepeatedCall ==
    /\ op.name = "hybrid_retrieval"
    /\ op' = op
    /\ now' = now

\* The entry of the call before, if held, has not expired.
NoExpiry ==
    \A i \in 1..Len(cache) :
        KeyOf(cache[i]) = generate_cache_key(op.query, op.params)
            => ~is_expired(cache[i], now)

\* C6: two consecutive hybrid_retrieval calls with the same arguments, with
\* no weight change, rebuild, expiry, eviction, invalidation or clear between
\* them, return the same ordered list, and the second is counted as a hit.
C6_RepeatIsHit ==
    [][(RepeatedCall /\ NoExpiry) =>
            /\ ret' = ret
            /\ cache_stats'.hits = cache_stats.hits + 1]_vars

\* C6 as amended: the same, on an enabled cache.
C6_RepeatIsHitWhenEnabled ==
    [][(cache_enabled /\ RepeatedCall /\ NoExpiry) =>
            /\ ret' = ret
            /\ cache_stats'.hits = cache_stats.hits + 1]_vars

\* A miss, then the same call again: a hit that fetched nothing and
\* returned the two passages stored.
C6_Witness ==
    /\ cache_enabled
    /\ op.name = "hybrid_retrieval"
    /\ cache_stats = [hits |-> 1, misses |-> 1, total_queries |-> 2]
    /\ ~fetched.called
    /\ Len(cache) = 1
    /\ ret = Some(cache[1].results)
    /\ Len(ret.results) = 2

\* C10: when one source raises and the other does not, hybrid_retrieval
\* returns the fusion of the other's results alone; when both raise it
\* returns an empty list; it always returns a list.
C10_SourceFailureDegrades ==
    (op.name = "hybrid_retrieval" /\ fetched.called) =>
        /\ ret.some
        /\ (fetched.vector_raised /\ ~fetched.keyword_raised) =>
              ret.results = Fuse(<<>>, fetched.keyword_results, fetched.top_k)
        /\ (~fetched.vector_raised /\ fetched.keyword_raised) =>
              ret.results = Fuse(fetched.vector_results, <<>>, fetched.top_k)
        /\ (fetched.vector_raised /\ fetched.keyword_raised) =>
              ret.results = <<>>

\* The vector search raised, the keyword search found two passages, and
\* both are returned.
C10_Witness ==
    /\ op.name = "hybrid_retrieval"
    /\ fetched.called
    /\ fetched.vector_raised
    /\ ~fetched.keyword_raised
    /\ Len(fetched.keyword_results) = 2
    /\ Len(ret.results) = 2

\* ================================================= claims, under SpecFault
\* C11: when the cache's get or set raises during hybrid_retrieval, the call
\* still returns the results fused from what the two sources gave it.
C11_CacheFailureStillReturns ==
    (op.name = "hybrid_retrieval" /\ fetched.called) =>
        ret = Some(Fuse(fetched.vector_results, fetched.keyword_results, fetched.top_k))

\* =============================================== claims, under SpecInvalid
\* C12: a hybrid_retrieval call under a negative weight or with top_k <= 0
\* is rejected before anything is fetched: it returns no list and writes no
\* cache entry; every other call returns a list.
C12_InvalidConfigRejected ==
    op.name = "hybrid_retrieval" =>
        IF InvalidConfig(op.params)
        THEN /\ ~ret.some
             /\ ~fetched.called
             /\ generate_cache_key(op.query, op.params) \notin Keys(cache)
        ELSE ret.some

\* ------------------------------------------------------------ C13, C14
Quiescent == \A t \in Threads : threads[t].pc \in {"idle", "returned"}
CompletedGets == Cardinality({t \in Threads : threads[t].name = "get" /\ threads[t].pc = "returned"})

\* C13: with the steps of two threads' get and set calls interleaved on one
\* cache, the entry count is at most cache_max_size once a set has returned,
\* and when no call is in progress hits + misses = total_queries = the
\* number of completed get calls.
C13_BookkeepingUnderThreads ==
    /\ (\E t \in Threads : threads[t].name = "set" /\ threads[t].pc = "returned")
          => Len(cache) <= cache_max_size
    /\ Quiescent =>
          /\ cache_stats.hits + cache_stats.misses = cache_stats.total_queries
          /\ cache_stats.total_queries = CompletedGets

\* The two halves of C13, to tell which of them the interleavings break.
C13_SizeUnderThreads ==
    (\E t \in Threads : threads[t].name = "set" /\ threads[t].pc = "returned")
        => Len(cache) <= cache_max_size
C13_CountersUnderThreads ==
    Quiescent =>
        /\ cache_stats.hits + cache_stats.misses = cache_stats.total_queries
        /\ cache_stats.total_queries = CompletedGets

\* A writer is a thread running set; a reader is a get, or a set inside its
\* scan for expired entries.
WriterBeside(t) == \E u \in Threads \ {t} : threads[u].name = "set"
ReaderPcs == {"get_76", "get_77", "get_80", "get_86", "set_48"}

\* C14: a get, or the expired-entry scan of a set, that runs beside another
\* thread's set never raises, and a get that returns results returns the
\* complete results of an entry as stored before or after that write.
C14_ReaderNeverCorrupted ==
    \A t \in Threads :
        WriterBeside(t) =>
            /\ ~(threads[t].pc = "raised" /\ threads[t].at \in ReaderPcs)
            /\ (threads[t].name = "get" /\ threads[t].pc = "returned" /\ threads[t].ret.some)
                  => threads[t].ret.results \in {StoredAtZero(<<threads[t].query, threads[t].params>>).results,
                                               ThreadResults}

\* ------------------------------------------------------------ C15
\* The index a keyword_retrieval works on: used only when there are
\* documents and a matrix.
IndexUsed == documents_cache # <<>> /\ tfidf_matrix.some

\* C15: every retrieval that runs after a rebuild of the keyword index, a
\* failed rebuild included, works on a document list and a TF-IDF matrix of
\* one and the same build: the matrix has one row per listed document.
C15_IndexFromOneBuild ==
    (op.name = "hybrid_retrieval" /\ fetched.called /\ IndexUsed) =>
        tfidf_matrix.rows = Len(documents_cache)

\* ------------------------------------------------------------ C16
OtherQueries(c, query) == SelectSeq(c, LAMBDA e : e.query # query)

\* C16: invalidate_by_query(q) on an enabled cache leaves no entry stored for
\* q, whatever its retrieval parameters, and the entries of the other
\* queries stay as they were: same results, same creation times, same order.
C16_InvalidateByQueryFrame ==
    [][(op'.name = "invalidate_by_query" /\ cache_enabled) =>
          /\ \A i \in 1..Len(cache') : cache'[i].query # op'.query
          /\ cache' = OtherQueries(cache, op'.query)]_vars

\* invalidate_by_query("q1") removed the entries of q1 under two different
\* parameter sets and kept the entry of q2.
C16_Witness ==
    /\ op.name = "invalidate_by_query"
    /\ cache_enabled
    /\ Cardinality(evicted) = 2
    /\ \A e \in evicted : e.key[1] = op.query
    /\ cache # <<>>

\* ------------------------------------------------------------ C17
\* C17: clear() leaves the cache empty and hits, misses and total_queries at
\* zero, whatever the cache held; and from an empty cache every call other
\* than set leaves the cache empty and every get returns nothing, so that
\* after a clear every get misses until a set is made.
C17_ClearResets ==
    [][/\ op'.name = "clear" => (cache' = <<>> /\ cache_stats' = ZeroStats)
       /\ (cache = <<>> /\ op'.name # "set") =>
             /\ cache' = <<>>
             /\ op'.name = "get" => ~ret'.some]_vars

\* clear() ran on a cache holding two entries.
C17_Witness ==
    /\ op.name = "clear"
    /\ Cardinality(evicted) = 2
    /\ cache = <<>>
    /\ cache_stats = ZeroStats

\* ------------------------------------------------------------ C18
\* The dict the last call returned, when that call was get_stats.
Reported == ret.results[1]

\* C18: on an enabled cache total_queries counts the get calls since the
\* last clear, hits + misses = total_queries, a set or invalidate_by_query
\* (evictions and purges of expired entries included) leaves the three
\* counters as they were, and get_stats reports those counters with the hit
\* rate hits / total_queries, shown as a percentage with two decimals, 0 when
\* nothing was queried.
C18_RunningCounters ==
    [][cache_enabled =>
          /\ cache_stats'.total_queries = get_calls'
          /\ cache_stats'.hits + cache_stats'.misses = cache_stats'.total_queries
          /\ op'.name \in {"set", "invalidate_by_query"} => cache_stats' = cache_stats
          /\ op'.name = "get_stats" =>
                LET r == ret'.results[1]
                    far == r.hit_rate * cache_stats.total_queries
                             - cache_stats.hits * 100 * 100
                IN  /\ r.hits = cache_stats.hits
                    /\ r.misses = cache_stats.misses
                    /\ r.total_queries = cache_stats.total_queries
                    /\ IF cache_stats.total_queries = 0
                       THEN r.hit_rate = 0
                       ELSE /\ 2 * far <= cache_stats.total_queries
                            /\ 0 - 2 * far <= cache_stats.total_queries]_vars

\* get_stats after 3 misses and 2 hits: total_queries 5, hits 2, misses 3 and
\* the hit rate "40.00%".
C18_Witness ==
    /\ cache_enabled
    /\ op.name = "get_stats"
    /\ get_calls = 5
    /\ Reported.total_queries = 5
    /\ Reported.hits = 2
    /\ Reported.misses = 3
    /\ Reported.hit_rate = 40 * 100

\* ------------------------------------------------------------ C19
\* C19: with the cache disabled, whatever calls of get, set,
\* invalidate_by_query, clear and get_stats were made: the cache holds no
\* entry, the three counters are zero, a get returns nothing, and get_stats
\* reports enabled = false, no entry and zero hits, misses and total_queries.
C19_DisabledCacheIsInert ==
    ~cache_enabled =>
        /\ cache = <<>>
        /\ cache_stats = ZeroStats
        /\ op.name = "get" => ~ret.some
        /\ op.name = "get_stats" =>
              /\ ~Reported.enabled
              /\ Reported.total_entries = 0
              /\ Reported.hits = 0
              /\ Reported.misses = 0
              /\ Reported.total_queries = 0
              /\ Reported.hit_rate = 0

\* A set has just returned on the disabled cache, and nothing is stored.
C19_Witness ==
    /\ ~cache_enabled
    /\ op.name = "set"
    /\ op.query = "q1"
    /\ cache = <<>>
    /\ cache_stats = ZeroStats

\* ------------------------------------------------------------ C20
\* C20: a hybrid_retrieval answered from the cache returns the results of an
\* entry stored for the same query under the same vector weight, keyword
\* weight and top_k as the call's, never those of an entry stored under
\* other weights or another top_k; entries of one query under different
\* parameters are held side by side.
C20_ConfigsKeptApart ==
    [][(op'.name = "hybrid_retrieval" /\ ret'.some /\ ~fetched'.called) =>
          /\ op'.params = RetrievalParams(vector_weight, keyword_weight, op'.params.top_k)
          /\ \E i \in 1..Len(cache) :
                /\ cache[i].query = op'.query
                /\ cache[i].params = op'.params
                /\ cache[i].results = ret'.results
          /\ \A i, j \in 1..Len(cache') :
                (cache'[i].query = cache'[j].query /\ cache'[i].params = cache'[j].params)
                    => i = j]_vars

\* A call answered from the cache while the cache holds the same query under
\* other weights and under another top_k, after the weights were changed.
C20_Witness ==
    /\ op.name = "hybrid_retrieval"
    /\ ret.some
    /\ ~fetched.called
    /\ op.params.vector_weight # DefaultVectorWeight
    /\ \E i, j \in 1..Len(cache) :
          /\ cache[i].query = op.query
          /\ cache[j].query = op.query
          /\ cache[i].params.vector_weight # op.params.vector_weight
          /\ cache[i].params.top_k = op.params.top_k
          /\ cache[j].params.vector_weight = op.params.vector_weight
          /\ cache[j].params.top_k # op.params.top_k

\* ------------------------------------------------------------ C21
\* C21: whatever the caller does to the list it passed to set or received
\* from get, a later get for the same key returns the results as they were
\* before the caller changed its list.
C21_ResultsNotShared ==
    [][(/\ op.name = "mutate"
        /\ op'.name = "get"
        /\ op'.query = op.query
        /\ op'.params = op.params) => ret' = ret]_vars

\* ------------------------------------------------------------ C22
\* The place of a passage in the corpus, by its content.
CorpusPlace(content) ==
    CHOOSE i \in 1..Len(documents_cache) : documents_cache[i].content = content

\* C22: the list keyword_retrieval(query, k) gave to hybrid_retrieval has at
\* most k passages, all of similarity > 0, in descending order of
\* similarity, and passages of equal similarity come in corpus order, the
\* earlier passage first.
C22_KeywordOrder ==
    (op.name = "hybrid_retrieval" /\ fetched.called /\ ~fetched.keyword_raised) =>
        LET kr == fetched.keyword_results
        IN  /\ Len(kr) <= fetched.top_k * 2
            /\ \A i \in 1..Len(kr) : kr[i].similarity > 0
            /\ \A i, j \in 1..Len(kr) :
                  i < j =>
                     \/ kr[i].similarity > kr[j].similarity
                     \/ /\ kr[i].similarity = kr[j].similarity
                        /\ CorpusPlace(kr[i].content) < CorpusPlace(kr[j].content)

\* ------------------------------------------------------------ C23
\* C23: with a ttl of 0 no entry expires, however late the call: a get for a
\* key the cache holds returns the stored results, and a set removes an
\* entry only to make room (none while the cache is below its capacity, and
\* then none but for capacity).
C23_ZeroTTLNeverExpires ==
    [][(cache_enabled /\ cache_ttl = 0) =>
          /\ (op'.name = "get"
                /\ generate_cache_key(op'.query, op'.params) \in Keys(cache))
               => /\ ret' = Some(Lookup(cache, generate_cache_key(op'.query, op'.params)).results)
                  /\ Keys(cache') = Keys(cache)
          /\ op'.name = "set" =>
               /\ cleanup_expired(cache, now) = cache
               /\ Len(cache) < cache_max_size => Keys(cache) \subseteq Keys(cache')]_vars

\* With ttl 0, a get at the latest time returns an entry stored at time 0.
C23_Witness ==
    /\ cache_enabled
    /\ cache_ttl = 0
    /\ now = MaxTime
    /\ op.name = "get"
    /\ ret.some
    /\ Lookup(cache, generate_cache_key(op.query, op.params)).created_time = 0

\* ------------------------------------------------------------ C24
\* C24: a retrieval on an unbuilt or empty keyword index gets an empty
\* keyword list and no exception; and once the index was rebuilt while the
\* store held no document, every retrieval gets an empty keyword list.
C24_EmptyCorpusGivesNothing ==
    (op.name = "hybrid_retrieval" /\ fetched.called) =>
        /\ (documents_cache = <<>> \/ ~tfidf_matrix.some) =>
              (fetched.keyword_results = <<>> /\ ~fetched.keyword_raised)
        /\ corpus = <<>> => fetched.keyword_results = <<>>

\* ------------------------------------------------------------ C25
\* A set for a key the cache does not hold, made on a full cache.
SetOnFull ==
    /\ cache_enabled
    /\ op'.name = "set"
    /\ generate_cache_key(op'.query, op'.params) \notin Keys(cache)
    /\ Len(cache) = cache_max_size

\* The cache driven by set calls alone, over four keys, so that an entry's
\* created_time is the time of its last use.
RecencyCalls == CacheCalls \cup {<<"q2", DefaultParams(1)>>}

InitRecency ==
    /\ Init
    /\ cache_enabled
    /\ cache_max_size = MaxCap

NextRecency ==
    \/ \E c \in RecencyCalls : Set(c[1], c[2], <<>>)
    \/ Tick

SpecRecency == InitRecency /\ [][NextRecency]_vars

\* C25: a set for a new key on a full cache removes the expired entries
\* first: if any entry is expired no unexpired entry leaves; if none is,
\* exactly one entry leaves and it is the least recently used one: no entry
\* that stays was last used (here: last set) before the one that leaves.
C25_PurgeBeforeEvict ==
    [][SetOnFull =>
          IF ~NoExpired(cache, now)
          THEN \A i \in 1..Len(cache) :
                  ~is_expired(cache[i], now) => KeyOf(cache[i]) \in Keys(cache')
          ELSE /\ Cardinality(Keys(cache) \ Keys(cache')) = 1
               /\ \A i, j \in 1..Len(cache) :
                     (KeyOf(cache[i]) \notin Keys(cache') /\ KeyOf(cache[j]) \in Keys(cache'))
                        => cache[i].created_time <= cache[j].created_time]_vars

\* The part of C25 that holds under Spec: the purge comes first, and while no
\* set has found its key held the entry that leaves is the least recently
\* used one.
C25_PurgeSparesUnexpired ==
    [][SetOnFull =>
          IF ~NoExpired(cache, now)
          THEN \A i \in 1..Len(cache) :
                  ~is_expired(cache[i], now) => KeyOf(cache[i]) \in Keys(cache')
          ELSE /\ Cardinality(Keys(cache) \ Keys(cache')) = 1
               /\ ~resetSeen => Keys(cache) \ Keys(cache') = {Head(touchOrder)}]_vars

\* ------------------------------------------------------------ C26
\* The entries a cache holds, without their order.
Entries(c) == {c[i] : i \in 1..Len(c)}

\* C26: a hybrid_retrieval that hits fetches from neither source and writes
\* no entry; one that misses fetches from both, fuses, and stores the fused
\* list once under its key before it returns it; one that fails before the
\* store adds no entry.
C26_LookupFetchFuseStore ==
    [][(op'.name = "hybrid_retrieval" /\ now' = now) =>
          LET key == generate_cache_key(op'.query, op'.params)
              hit == /\ cache_enabled
                     /\ key \in Keys(cache)
                     /\ ~is_expired(Lookup(cache, key), now)
              vr == fetched'.vector_results
              kr == fetched'.keyword_results
          IN  IF hit
              THEN /\ ~fetched'.called
                   /\ ret' = Some(Lookup(cache, key).results)
                   /\ Entries(cache') = Entries(cache)
              ELSE /\ fetched'.called
                   /\ IF FuseRaises(vr, kr)
                      THEN /\ ret' = Some(<<>>)
                           /\ key \notin Keys(cache')
                           /\ Entries(cache') \subseteq Entries(cache)
                      ELSE LET fused == Fuse(vr, kr, op'.params.top_k)
                               stored == [query |-> op'.query, params |-> op'.params,
                                          results |-> fused, created_time |-> now]
                           IN  /\ ret' = Some(fused)
                               /\ IF cache_enabled
                                  THEN /\ Entries(cache') \ Entries(cache) \subseteq {stored}
                                       /\ stored \in Entries(cache')
                                       /\ Cardinality({i \in 1..Len(cache') :
                                                KeyOf(cache'[i]) = key}) = 1
                                  ELSE cache' = cache]_vars

\* A miss that fetched from both sources and stored the two passages it
\* returns.
C26_Witness ==
    /\ cache_enabled
    /\ op.name = "hybrid_retrieval"
    /\ fetched.called
    /\ fetched.vector_results # <<>>
    /\ fetched.keyword_results # <<>>
    /\ Len(ret.results) = 2
    /\ generate_cache_key(op.query, op.params) \in Keys(cache)
    /\ Lookup(cache, generate_cache_key(op.query, op.params)).results = ret.results

\* ------------------------------------------------------------ C27
\* The result lists Spec stores under a (query, retrieval_params) pair.
ListsSetFor(query, retrieval_params) ==
    {c[3] : c \in {d \in SetCalls : d[1] = query /\ d[2] = retrieval_params}}

C28_ResetKeepsOthers ==
    [][(/\ cache_enabled
        /\ op'.name = "set"
        /\ generate_cache_key(op'.query, op'.params) \in Keys(cache)
        /\ ~is_expired(Lookup(cache, generate_cache_key(op'.query, op'.params)), now))
          => \A i \in 1..Len(cache) :
                ~is_expired(cache[i], now) => KeyOf(cache[i]) \in Keys(cache')]_vars

\* ------------------------------------------------------------ C29
\* C29: a list fused while a source was raising is not committed to the
\* cache: the next hybrid_retrieval for the same query and top_k fetches from
\* the sources again and returns what it fuses from them.
C29_DegradedNotCached ==
    [][(/\ RepeatedCall
        /\ fetched.called
        /\ (fetched.vector_raised \/ fetched.keyword_raised))
          => /\ fetched'.called
             /\ ret' = Some(Fuse(fetched'.vector_results, fetched'.keyword_results,
                                 fetched'.top_k))]_vars

\* ------------------------------------------------------------ C30
\* The retriever where every update_keyword_index finds the corpus changed.
RebuildChanged ==
    \E stored \in Stores :
        /\ stored.documents # corpus
        /\ UpdateKeywordIndex(stored)

NextRebuild ==
    \/ \E query \in HybridQueries, top_k \in HybridTopKs, search \in Searches,
          computed \in Computations :
            HybridRetrieval(query, top_k, search, computed)
    \/ RebuildChanged
    \/ \E w \in WeightSettings : AdjustRetrievalWeights(w[1], w[2])
    \/ Elapse

SpecRebuild == InitHybrid /\ [][NextRebuild]_vars

\* C30: the first hybrid_retrieval after update_keyword_index has rebuilt the
\* index from a changed corpus fetches from the sources, the new index
\* included: it is not answered with a list fused before the rebuild.
C30_RebuildDropsCachedLists ==
    [][(/\ op.name = "update_keyword_index"
        /\ op'.name = "hybrid_retrieval"
        /\ now' = now)
          => fetched'.called]_vars
====
